---------------------------- MODULE Spec2Model ----------------------------
(***************************************************************************)
(* A model of the BJJTimer countdown engine: the pure state module         *)
(* (utils/TimerState.js) and the TimerLogic controller that composes it    *)
(* with wall-clock reads, a recurring host callback, an audio collaborator *)
(* and a set of subscribers.                                               *)
(*                                                                         *)
(* Every method of TimerLogic is an operator from a "world" record (the    *)
(* object's fields plus the host facilities it touches) to the world it    *)
(* leaves behind, so that a method calling another method (toggle -> start,*)
(* tick -> handlePhaseTransition -> reset) is modelled by composition.     *)
(* Times are milliseconds, as in the source.                               *)
(***************************************************************************)
EXTENDS Integers, Sequences, FiniteSets

(***************************************************************************)
(* Program constants (TimerState.js, TIMER_PHASES and TIMER_CONSTANTS).    *)
(***************************************************************************)
IDLE == "idle"
WORK == "work"

SOON_TIME == 10000
MIN_ROUND_TIME == 30000
\* RENDER_RATE is 1000 / 30, which is no integer: the one place the code uses
\* it (the window of the soon cue) is compared after multiplying by 30.
RENDER_RATE_NUM == 1000
RENDER_RATE_DEN == 30
\* the constructor's default round time, 5 * 60 * 1000
DEFAULT_ROUND_TIME == 300000
\* toggle()'s debounce window and tick()'s notification throttle
DEBOUNCE_MS == 100
THROTTLE_MS == 100

\* JavaScript's null / undefined.  Timestamps and durations of the model are
\* never -1, so the value is free to stand for "no value".
Null == -1

(***************************************************************************)
(* Bounds of the model.                                                    *)
(***************************************************************************)
\* Date.now() at construction (any large epoch; larger than every round time)
T0 == 1000000
\* the clock stops advancing once it is MaxTime past T0
MaxTime == 30000
\* how many fine-grained clock steps a behaviour may take
MaxFine == 1
\* how many calls of the engine's methods a behaviour may make (ticks, which
\* the host makes, are not counted)
MaxCalls == 3

\* the clock advances by a fine step (half the debounce window) or by a coarse
\* step (the soon time: a round of MIN_ROUND_TIME ends on the third)
FineStep == DEBOUNCE_MS \div 2
CoarseStep == SOON_TIME
\* roundTime values a caller may pass to updateSettings (Null: the option is
\* left out) and to the constructor
RoundTimeInputs == {Null, 0, 30000, 40000}
ConstructorInputs == {20000, 30000}
\* the constructor's inputs with the ones it takes for "no value"
AnyConstructorInputs == ConstructorInputs \cup {Null, 0}
\* deltas a caller may pass to adjustCurrentTime
Deltas == {-10000, 10000}
\* callbacks that may subscribe
Callbacks == {"ui"}

VARIABLES
    state,            \* this.state
    subscribers,      \* this.subscribers
    intervalId,       \* this.intervalId
    lastActionTime,   \* this.lastActionTime
    lastNotifyTime,   \* this.lastNotifyTime
    now,              \* the host clock, Date.now()
    intervals,        \* ids of the recurring callbacks registered with the host
    lastId,           \* the last interval id the host handed out
    audioInit,        \* whether AudioManager.initialize() has been called
    played,           \* cues played by the last operation, in order (empty once the clock moves)
    delivered,        \* snapshots passed to subscribers by the last operation
    notifyCalls,      \* number of notifySubscribers() calls of the last operation
    computed,         \* the newTimeLeft values tick() computed in the last operation
    lastOp,           \* name of the last step taken
    lastArg,          \* the argument of the last step (a roundTime or a delta), Null if it has none
    fresh,            \* <<s>>: start() at time s left Idle and only ticks followed; else << >>
    pausedLeft,       \* <<t>>: paused with timeLeft t and no adjust since; else << >>
    resumed,          \* <<n, t>>: start() resumed at time n with timeLeft t and no method ran since; else << >>
    toggledAt,        \* when a toggle() last flipped isRunning, Null if none did
    soonCount,        \* soon cues played in the current (or last) Work phase
    finishCount,      \* finish cues played in the current (or last) session
    sinceDelivery,    \* ms since a subscriber last received a snapshot, capped at THROTTLE_MS (also when none has)
    fine,             \* fine-grained clock steps taken so far
    calls             \* calls of the engine's methods made so far

vars == <<state, subscribers, intervalId, lastActionTime, lastNotifyTime, now,
          intervals, lastId, audioInit, played, delivered, notifyCalls, computed,
          lastOp, lastArg, fresh, pausedLeft, resumed, toggledAt, soonCount, finishCount,
          sinceDelivery, fine, calls>>

Max(a, b) == IF a >= b THEN a ELSE b
Min(a, b) == IF a <= b THEN a ELSE b

\* JavaScript truthiness of a number-or-null: null, undefined and 0 are falsy
Truthy(x) == x # Null /\ x # 0

(***************************************************************************)
(* utils/TimerState.js                                                     *)
(***************************************************************************)
createInitialState(roundTime) ==
    [isRunning |-> FALSE,
     timeLeft |-> roundTime,
     phase |-> IDLE,
     startTime |-> Null,
     sessionStartTime |-> Null,
     roundTime |-> roundTime,
     soonSoundPlayed |-> FALSE]

validateSettings(roundTime) ==
    [roundTime |-> Max(MIN_ROUND_TIME, roundTime)]

getCurrentPhaseDuration(s) == s.roundTime

\* the test as it would be with a strict comparison
shouldTransitionPhase_strict(s) == s.timeLeft < 0

shouldTransitionPhase(s) == s.timeLeft <= 0

\* the transition as it would be if the Work case left timeLeft alone
createPhaseTransition_keepsTimeLeft(s, newPhase, n) ==
    LET updates == [s EXCEPT !.phase = newPhase,
                             !.startTime = n,
                             !.soonSoundPlayed = FALSE]
    IN  CASE newPhase = IDLE ->
               [updates EXCEPT !.timeLeft = s.roundTime,
                               !.isRunning = FALSE,
                               !.startTime = Null,
                               !.sessionStartTime = Null]
          [] OTHER -> updates

\* n is the Date.now() the function reads (the caller, start(), reads the clock
\* in the same synchronous call and overwrites startTime with its own reading)
createPhaseTransition(s, newPhase, n) ==
    LET updates == [s EXCEPT !.phase = newPhase,
                             !.startTime = n,
                             !.soonSoundPlayed = FALSE]
    IN  CASE newPhase = WORK ->
               [updates EXCEPT !.timeLeft = s.roundTime]
          [] newPhase = IDLE ->
               [updates EXCEPT !.timeLeft = s.roundTime,
                               !.isRunning = FALSE,
                               !.startTime = Null,
                               !.sessionStartTime = Null]
          [] OTHER -> updates

(***************************************************************************)
(* The world a TimerLogic method runs in.                                  *)
(***************************************************************************)
World ==
    [state |-> state, subscribers |-> subscribers, intervalId |-> intervalId,
     lastActionTime |-> lastActionTime, lastNotifyTime |-> lastNotifyTime,
     intervals |-> intervals, lastId |-> lastId, audioInit |-> audioInit,
     played |-> << >>, delivered |-> << >>, notifyCalls |-> 0, computed |-> << >>]

\* host: setInterval hands out an id that no live interval has and that
\* differs from the last one it gave (the host's ids never repeat; two ids used
\* in turn tell a new handle from the one before)
setInterval(w) ==
    LET id == IF w.lastId = 1 THEN 2 ELSE 1
    IN  [w EXCEPT !.intervals = @ \cup {id}, !.lastId = id, !.intervalId = id]

\* host: clearInterval(id)
clearInterval(w, id) == [w EXCEPT !.intervals = @ \ {id}]

\* audio collaborator
audioInitialize(w) == [w EXCEPT !.audioInit = TRUE]
playSoon(w) == [w EXCEPT !.played = Append(@, "soon")]
playFinish(w) == [w EXCEPT !.played = Append(@, "finish")]

(***************************************************************************)
(* TimerLogic                                                              *)
(***************************************************************************)
getState(w) == w.state

\* every subscriber is called with a snapshot of the state
notifySubscribers(w) ==
    [w EXCEPT !.notifyCalls = @ + 1,
              !.delivered = @ \o [i \in 1..Cardinality(w.subscribers) |-> getState(w)]]

\* the state the constructor leaves for new TimerLogic({roundTime: r})
constructor(r) ==
    createInitialState(
        validateSettings(IF Truthy(r) THEN r ELSE DEFAULT_ROUND_TIME).roundTime)

subscribe(w, cb) == [w EXCEPT !.subscribers = @ \cup {cb}]
unsubscribe(w, cb) == [w EXCEPT !.subscribers = @ \ {cb}]

\* updateSettings() as it would be if it set timeLeft in every phase
updateSettings_resetsTimeLeft(w, r) ==
    LET validated == validateSettings(IF r # Null THEN r ELSE w.state.roundTime)
    IN  notifySubscribers([w EXCEPT !.state.roundTime = validated.roundTime,
                                    !.state.timeLeft = validated.roundTime])

updateSettings(w, r) ==
    LET validated == validateSettings(IF r # Null THEN r ELSE w.state.roundTime)
        w1 == [w EXCEPT !.state.roundTime = validated.roundTime]
        w2 == IF w1.state.phase = IDLE
              THEN [w1 EXCEPT !.state.timeLeft = validated.roundTime]
              ELSE w1
    IN  notifySubscribers(w2)

startTicking(w) ==
    LET w1 == IF w.intervalId # Null THEN clearInterval(w, w.intervalId) ELSE w
    IN  setInterval(w1)

stopTicking(w) ==
    IF Truthy(w.intervalId)
    THEN [clearInterval(w, w.intervalId) EXCEPT !.intervalId = Null]
    ELSE w

transitionToPhase(w, newPhase, n) ==
    [w EXCEPT !.state = createPhaseTransition(w.state, newPhase, n)]

\* start() as it would be if a resume kept the old startTime
start_keepsStartTime(w, n) ==
    IF w.state.isRunning THEN w
    ELSE
      LET w1 == audioInitialize(w)
          w2 == IF w1.state.phase = IDLE
                THEN [transitionToPhase(w1, WORK, n) EXCEPT !.state.startTime = n]
                ELSE w1
          w3 == [w2 EXCEPT !.state.isRunning = TRUE]
          w4 == IF ~Truthy(w3.state.sessionStartTime)
                THEN [w3 EXCEPT !.state.sessionStartTime = n]
                ELSE w3
      IN  notifySubscribers(startTicking(w4))

\* start() as it would be without its guard against a double start
start_noGuard(w, n) ==
    LET w1 == audioInitialize(w)
        w2 == IF w1.state.phase = IDLE
              THEN [transitionToPhase(w1, WORK, n) EXCEPT !.state.startTime = n]
              ELSE [w1 EXCEPT !.state.startTime =
                        n - (getCurrentPhaseDuration(w1.state) - w1.state.timeLeft)]
        w3 == [w2 EXCEPT !.state.isRunning = TRUE]
        w4 == IF ~Truthy(w3.state.sessionStartTime)
              THEN [w3 EXCEPT !.state.sessionStartTime = n]
              ELSE w3
    IN  notifySubscribers(startTicking(w4))

start(w, n) ==
    IF w.state.isRunning THEN w
    ELSE
      LET w1 == audioInitialize(w)
          w2 == IF w1.state.phase = IDLE
                THEN [transitionToPhase(w1, WORK, n) EXCEPT !.state.startTime = n]
                ELSE [w1 EXCEPT !.state.startTime =
                          n - (getCurrentPhaseDuration(w1.state) - w1.state.timeLeft)]
          w3 == [w2 EXCEPT !.state.isRunning = TRUE]
          w4 == IF ~Truthy(w3.state.sessionStartTime)
                THEN [w3 EXCEPT !.state.sessionStartTime = n]
                ELSE w3
      IN  notifySubscribers(startTicking(w4))

\* pause() as it would be if it recomputed timeLeft from the clock
pause_recomputes(w) ==
    IF ~w.state.isRunning THEN w
    ELSE notifySubscribers(stopTicking(
            [w EXCEPT !.state.isRunning = FALSE,
                      !.state.timeLeft = getCurrentPhaseDuration(w.state)
                                            - (now - w.state.startTime)]))

pause(w) ==
    IF ~w.state.isRunning THEN w
    ELSE notifySubscribers(stopTicking([w EXCEPT !.state.isRunning = FALSE]))

\* reset() as it would be if the Idle record were built by merging into the old one
reset_keepsSession(w) ==
    LET w1 == stopTicking(w)
    IN  notifySubscribers(
            [w1 EXCEPT !.state = [createInitialState(w1.state.roundTime)
                                     EXCEPT !.sessionStartTime = w1.state.sessionStartTime]])

\* reset() as it would be if it left the tick loop alone
reset_keepsTicking(w) ==
    notifySubscribers([w EXCEPT !.state = createInitialState(w.state.roundTime)])

reset(w) ==
    LET w1 == stopTicking(w)
    IN  notifySubscribers([w1 EXCEPT !.state = createInitialState(w1.state.roundTime)])

\* toggle() as it would be if it did not record the time of the action
toggle_noStamp(w, n) ==
    IF n - w.lastActionTime < DEBOUNCE_MS THEN w
    ELSE IF w.state.isRunning THEN pause(w) ELSE start(w, n)

toggle(w, n) ==
    IF n - w.lastActionTime < DEBOUNCE_MS THEN w
    ELSE
      LET w1 == [w EXCEPT !.lastActionTime = n]
      IN  IF w1.state.isRunning THEN pause(w1) ELSE start(w1, n)

\* adjustCurrentTime() as it would be without the lower clamp
adjustCurrentTime_noFloor(w, deltaMs, n) ==
    LET currentPhaseDuration == getCurrentPhaseDuration(w.state)
        newTimeLeft == Min(w.state.timeLeft + deltaMs, currentPhaseDuration)
        w1 == [w EXCEPT !.state.timeLeft = newTimeLeft]
        w2 == IF w1.state.isRunning
              THEN [w1 EXCEPT !.state.startTime = n - (currentPhaseDuration - newTimeLeft)]
              ELSE w1
    IN  notifySubscribers(w2)

adjustCurrentTime(w, deltaMs, n) ==
    LET currentPhaseDuration == getCurrentPhaseDuration(w.state)
        newTimeLeft == Min(Max(0, w.state.timeLeft + deltaMs), currentPhaseDuration)
        w1 == [w EXCEPT !.state.timeLeft = newTimeLeft]
        w2 == IF w1.state.isRunning
              THEN [w1 EXCEPT !.state.startTime = n - (currentPhaseDuration - newTimeLeft)]
              ELSE w1
    IN  notifySubscribers(w2)

checkAudioCues(w) ==
    IF /\ w.state.phase = WORK
       /\ w.state.timeLeft <= SOON_TIME
       \* timeLeft > SOON_TIME - RENDER_RATE * 2, both sides times 30
       /\ w.state.timeLeft * RENDER_RATE_DEN
             > SOON_TIME * RENDER_RATE_DEN - RENDER_RATE_NUM * 2
       /\ ~w.state.soonSoundPlayed
    THEN [playSoon(w) EXCEPT !.state.soonSoundPlayed = TRUE]
    ELSE w

\* handlePhaseTransition() as it would be if it notified before resetting
handlePhaseTransition_notifiesFirst(w) ==
    LET w1 == notifySubscribers([w EXCEPT !.state.timeLeft = 0])
    IN  IF w1.state.phase = WORK
        THEN reset(playFinish(w1))
        ELSE w1

\* handlePhaseTransition() as it would be if it announced the computed
\* timeLeft before replacing it
handlePhaseTransition_announcesRaw(w) ==
    LET w1 == notifySubscribers(w)
        w2 == [w1 EXCEPT !.state.timeLeft = 0]
    IN  IF w2.state.phase = WORK
        THEN reset(playFinish(w2))
        ELSE w2

handlePhaseTransition(w) ==
    LET w1 == [w EXCEPT !.state.timeLeft = 0]
    IN  IF w1.state.phase = WORK
        THEN reset(playFinish(w1))
        ELSE notifySubscribers(w1)

\* tick() as it would be if it subtracted a fixed step from timeLeft
tick_countsDown(w, n) ==
    IF ~w.state.isRunning \/ ~Truthy(w.state.startTime) \/ w.intervalId = Null THEN w
    ELSE
      LET currentPhaseDuration == getCurrentPhaseDuration(w.state)
          elapsedTimeInPhase == n - w.state.startTime
          newTimeLeft == w.state.timeLeft - (RENDER_RATE_NUM \div RENDER_RATE_DEN)
          w1 == [w EXCEPT !.state.timeLeft = newTimeLeft,
                          !.computed = Append(@, newTimeLeft)]
      IN  IF shouldTransitionPhase(w1.state)
          THEN handlePhaseTransition(w1)
          ELSE
            LET w2 == checkAudioCues(w1)
                shouldNotify == ~Truthy(w2.lastNotifyTime)
                                   \/ n - w2.lastNotifyTime >= THROTTLE_MS
            IN  IF shouldNotify
                THEN notifySubscribers([w2 EXCEPT !.lastNotifyTime = n])
                ELSE w2

\* tick() as it would be without its guard against a stale callback
tick_noGuard(w, n) ==
    LET currentPhaseDuration == getCurrentPhaseDuration(w.state)
        elapsedTimeInPhase == n - w.state.startTime
        newTimeLeft == currentPhaseDuration - elapsedTimeInPhase
        w1 == [w EXCEPT !.state.timeLeft = newTimeLeft,
                        !.computed = Append(@, newTimeLeft)]
    IN  IF shouldTransitionPhase(w1.state)
        THEN handlePhaseTransition(w1)
        ELSE
          LET w2 == checkAudioCues(w1)
              shouldNotify == ~Truthy(w2.lastNotifyTime)
                                 \/ n - w2.lastNotifyTime >= THROTTLE_MS
          IN  IF shouldNotify
              THEN notifySubscribers([w2 EXCEPT !.lastNotifyTime = n])
              ELSE w2

tick(w, n) ==
    IF ~w.state.isRunning \/ ~Truthy(w.state.startTime) \/ w.intervalId = Null THEN w
    ELSE
      LET currentPhaseDuration == getCurrentPhaseDuration(w.state)
          elapsedTimeInPhase == n - w.state.startTime
          newTimeLeft == currentPhaseDuration - elapsedTimeInPhase
          w1 == [w EXCEPT !.state.timeLeft = newTimeLeft,
                          !.computed = Append(@, newTimeLeft)]
      IN  IF shouldTransitionPhase(w1.state)
          THEN handlePhaseTransition(w1)
          ELSE
            LET w2 == checkAudioCues(w1)
                shouldNotify == ~Truthy(w2.lastNotifyTime)
                                   \/ n - w2.lastNotifyTime >= THROTTLE_MS
            IN  IF shouldNotify
                THEN notifySubscribers([w2 EXCEPT !.lastNotifyTime = n])
                ELSE w2

\* destroy() as it would be if it did not stop the tick loop
destroy_leavesLoop(w) ==
    [w EXCEPT !.subscribers = {}, !.state.isRunning = FALSE]

destroy(w) ==
    LET w1 == stopTicking(w)
    IN  [w1 EXCEPT !.subscribers = {}, !.state.isRunning = FALSE]

(***************************************************************************)
(* The state machine: one action per call of a method, one for the host    *)
(* firing the recurring callback, one for the clock.                       *)
(***************************************************************************)
Count(seq, x) == Cardinality({i \in 1..Len(seq) : seq[i] = x})

\* the world w becomes the next state; op names the operation
Commit(w, op, arg) ==
    /\ state' = w.state
    /\ subscribers' = w.subscribers
    /\ intervalId' = w.intervalId
    /\ lastActionTime' = w.lastActionTime
    /\ lastNotifyTime' = w.lastNotifyTime
    /\ intervals' = w.intervals
    /\ lastId' = w.lastId
    /\ audioInit' = w.audioInit
    /\ played' = w.played
    /\ delivered' = w.delivered
    /\ notifyCalls' = w.notifyCalls
    /\ computed' = w.computed
    /\ lastOp' = op
    /\ lastArg' = arg
    /\ soonCount' = (IF state.phase = IDLE /\ w.state.phase = WORK THEN 0 ELSE soonCount)
                        + Count(w.played, "soon")
    /\ finishCount' = (IF state.phase = IDLE /\ w.state.phase = WORK THEN 0 ELSE finishCount)
                        + Count(w.played, "finish")
    /\ toggledAt' = IF op = "toggle" /\ w.state.isRunning # state.isRunning
                    THEN now
                    ELSE toggledAt
    /\ sinceDelivery' = IF w.delivered # << >> THEN 0 ELSE sinceDelivery
    /\ UNCHANGED <<now, fine>>

\* one more call of a method, within the bound
Call ==
    /\ calls < MaxCalls
    /\ calls' = calls + 1

\* the bookkeeping of a start() that found the timer stopped (acts): a session
\* begun from Idle, or a resume
StartGhost(acts) ==
    /\ fresh' = IF acts /\ state.phase = IDLE THEN <<now>> ELSE << >>
    /\ resumed' = IF acts /\ state.phase = WORK THEN <<now, state.timeLeft>> ELSE << >>
    /\ pausedLeft' = IF acts THEN << >> ELSE pausedLeft

PauseGhost(acts) ==
    /\ fresh' = << >>
    /\ resumed' = << >>
    /\ pausedLeft' = IF acts THEN <<state'.timeLeft>> ELSE pausedLeft

\* the state after new TimerLogic({roundTime: r}), r among inputs
Constructed(inputs) ==
    /\ \E r \in inputs : state = constructor(r) /\ lastArg = r
    /\ subscribers = {}
    /\ intervalId = Null
    /\ lastActionTime = 0
    /\ lastNotifyTime = 0
    /\ now = T0
    /\ intervals = {}
    /\ lastId = 0
    /\ audioInit = FALSE
    /\ played = << >>
    /\ delivered = << >>
    /\ notifyCalls = 0
    /\ computed = << >>
    /\ lastOp = "constructor"
    /\ fresh = << >>
    /\ toggledAt = Null
    /\ pausedLeft = << >>
    /\ resumed = << >>
    /\ soonCount = 0
    /\ finishCount = 0
    /\ sinceDelivery = THROTTLE_MS
    /\ fine = 0
    /\ calls = 0

\* construction with a roundTime given
Init == Constructed(ConstructorInputs)

\* construction with a roundTime given, given as 0, or left out: for the last
\* two the constructor takes DEFAULT_ROUND_TIME, a round that outlasts MaxTime
AnyInit == Constructed(AnyConstructorInputs)

Subscribe ==
    /\ Call
    /\ \E cb \in Callbacks :
        /\ Commit(subscribe(World, cb), "subscribe", Null)
        /\ UNCHANGED <<fresh, resumed, pausedLeft>>

Unsubscribe ==
    /\ Call
    /\ \E cb \in Callbacks :
        /\ Commit(unsubscribe(World, cb), "unsubscribe", Null)
        /\ UNCHANGED <<fresh, resumed, pausedLeft>>

UpdateSettings ==
    /\ Call
    /\ \E r \in RoundTimeInputs :
        /\ Commit(updateSettings(World, r), "updateSettings", r)
        /\ fresh' = << >> /\ resumed' = << >> /\ UNCHANGED pausedLeft

Start ==
    /\ Call
    /\ Commit(start(World, now), "start", Null)
    /\ StartGhost(~state.isRunning)

Pause ==
    /\ Call
    /\ Commit(pause(World), "pause", Null)
    /\ PauseGhost(state.isRunning)

Reset ==
    /\ Call
    /\ Commit(reset(World), "reset", Null)
    /\ fresh' = << >> /\ resumed' = << >> /\ pausedLeft' = << >>

Toggle ==
    /\ Call
    /\ Commit(toggle(World, now), "toggle", Null)
    /\ IF state'.isRunning = state.isRunning
       THEN fresh' = << >> /\ resumed' = << >> /\ UNCHANGED pausedLeft
       ELSE IF state.isRunning THEN PauseGhost(TRUE) ELSE StartGhost(TRUE)

AdjustCurrentTime ==
    /\ Call
    /\ \E d \in Deltas :
        /\ Commit(adjustCurrentTime(World, d, now), "adjustCurrentTime", d)
        /\ fresh' = << >> /\ resumed' = << >> /\ pausedLeft' = << >>

Destroy ==
    /\ Call
    /\ Commit(destroy(World), "destroy", Null)
    /\ fresh' = << >> /\ resumed' = << >> /\ UNCHANGED pausedLeft

\* the host fires a recurring callback that is registered with it
Tick ==
    /\ intervals # {}
    /\ Commit(tick(World, now), "tick", Null)
    /\ UNCHANGED calls
    /\ fresh' = IF state'.phase = WORK THEN fresh ELSE << >>
    /\ resumed' = << >>
    /\ UNCHANGED pausedLeft

\* tick() runs although no callback is registered any more (a stale callback)
StaleTick ==
    /\ intervals = {}
    /\ Commit(tick(World, now), "staleTick", Null)
    /\ UNCHANGED calls
    /\ fresh' = << >> /\ resumed' = << >> /\ UNCHANGED pausedLeft

\* the wall clock advances; the logs of the last operation are closed
Advance ==
    /\ now < T0 + MaxTime
    /\ \/ /\ fine < MaxFine
          /\ now' = now + FineStep
          /\ fine' = fine + 1
       \/ /\ now' = now + CoarseStep
          /\ UNCHANGED fine
    /\ played' = << >>
    /\ delivered' = << >>
    /\ notifyCalls' = 0
    /\ computed' = << >>
    /\ lastOp' = "advance"
    /\ lastArg' = Null
    /\ sinceDelivery' = Min(THROTTLE_MS, sinceDelivery + (now' - now))
    /\ UNCHANGED <<state, subscribers, intervalId, lastActionTime, lastNotifyTime,
                   intervals, lastId, audioInit, fresh, pausedLeft, resumed, toggledAt,
                   soonCount, finishCount, calls>>

Next ==
    \/ Subscribe
    \/ Unsubscribe
    \/ UpdateSettings
    \/ Start
    \/ Pause
    \/ Reset
    \/ Toggle
    \/ AdjustCurrentTime
    \/ Destroy
    \/ Tick
    \/ StaleTick
    \/ Advance

Spec == Init /\ [][Next]_vars

AnySpec == AnyInit /\ [][Next]_vars

\* A session left to itself: the only method called is start() (and the
\* subscription of observers); the host keeps firing the registered callback
\* and the clock keeps advancing.
SessionNext ==
    \/ Subscribe
    \/ Start
    \/ Tick
    \/ Advance

SessionSpec ==
    Init /\ [][SessionNext]_vars /\ WF_vars(Tick) /\ WF_vars(Advance)

(***************************************************************************)
(* Properties.                                                             *)
(***************************************************************************)
Clamp(x, lo, hi) == IF x < lo THEN lo ELSE IF x > hi THEN hi ELSE x

\* C1: in every reachable state the phase is Idle or Work, and phase = Idle
\* implies isRunning = false, startTime = null and sessionStartTime = null
\* (so Idle/Running is unreachable).
C1_IdleIsStopped ==
    /\ state.phase \in {IDLE, WORK}
    /\ state.phase = IDLE =>
          /\ state.isRunning = FALSE
          /\ state.startTime = Null
          /\ state.sessionStartTime = Null

\* an Idle state reached by a round that ran to its end
C1_Witness == state.phase = IDLE /\ finishCount = 1 /\ lastOp = "tick"

\* C2 (as claimed): in every reachable state, phase = Idle implies
\* timeLeft = roundTime.
C2_IdleTimeLeftIsRoundTime ==
    state.phase = IDLE => state.timeLeft = state.roundTime

\* C3 (as claimed): roundTime >= MIN_ROUND_TIME in every reachable state, and
\* right after the constructor or updateSettings was given a roundTime r, the
\* stored roundTime is MIN_ROUND_TIME if r < MIN_ROUND_TIME and r otherwise.
C3_RoundTimeClamped ==
    /\ state.roundTime >= MIN_ROUND_TIME
    /\ (lastOp \in {"constructor", "updateSettings"} /\ lastArg # Null) =>
          state.roundTime = (IF lastArg < MIN_ROUND_TIME THEN MIN_ROUND_TIME ELSE lastArg)

\* a tick of a session that start() began from Idle at time fresh[1] and that no
\* other method has touched since
C4_FreshTick == fresh # << >> /\ lastOp' = "tick"

C4_TickEffect ==
    C4_FreshTick =>
        IF now < fresh[1] + state.roundTime
        THEN /\ state'.phase = WORK
             /\ state'.isRunning
             /\ played' \in {<< >>, <<"soon">>}
             /\ finishCount' = 0
        ELSE /\ state'.phase = IDLE
             /\ ~state'.isRunning
             /\ state'.roundTime = state.roundTime
             /\ state'.timeLeft = state.roundTime
             /\ intervalId' = Null
             /\ intervals' = {}
             /\ played' = <<"finish">>
             /\ finishCount' = 1

\* the round is over: back in Idle by the tick that played the finish cue once
C4_Completed ==
    /\ state.phase = IDLE
    /\ state.timeLeft = state.roundTime
    /\ lastOp = "tick"
    /\ played = <<"finish">>
    /\ finishCount = 1

\* a method other than tick (and other than subscribing) has been called on
\* the running session
C4_Interrupted ==
    lastOp \in {"updateSettings", "start", "pause", "reset", "toggle",
                "adjustCurrentTime", "destroy"}

\* C4: after start() from Idle at time s with no intervening external calls,
\* no tick at a time < s + roundTime leaves Work, and the first tick at a time
\* >= s + roundTime plays the finish cue, resets to Idle with
\* timeLeft = roundTime and stops the tick loop, the finish cue having been
\* played exactly once in the session; and while ticks keep firing and the
\* clock advances (up to the end of the round, which must lie within the
\* clock's range), the session does get there unless a method call intervenes.
C4_RoundCompletes ==
    /\ [][C4_TickEffect]_vars
    /\ (fresh # << >> /\ fresh[1] + state.roundTime <= T0 + MaxTime)
          ~> (C4_Completed \/ C4_Interrupted)

C4_Witness == C4_Completed /\ fresh = << >> /\ soonCount = 1 /\ calls = 1

\* the fields of the engine and of the host it holds resources in
engine == <<state, subscribers, intervalId, lastActionTime, lastNotifyTime,
            intervals, lastId>>

\* the last step made no notifySubscribers() call and played no cue
Silent == notifyCalls = 0 /\ delivered = << >> /\ played = << >>

\* a call of start(), directly or through a toggle() that took effect
StartCalled == lastOp' = "start" \/ (lastOp' = "toggle" /\ state'.isRunning # state.isRunning)

\* C5: a session paused with stored timeLeft t (no adjustCurrentTime since)
\* that start() resumes at time n, after whatever time has passed in between,
\* has timeLeft = t and startTime = n - (roundTime - t) right after the
\* resume, and the first tick after the resume, d ms later, computes t - d.
C5_Resume ==
    (pausedLeft # << >> /\ ~state.isRunning /\ state.phase = WORK /\ StartCalled) =>
        /\ state'.timeLeft = pausedLeft[1]
        /\ state'.startTime = now - (state'.roundTime - pausedLeft[1])
        /\ state'.isRunning

C5_FirstTick ==
    (resumed # << >> /\ lastOp' = "tick") =>
        computed' = <<resumed[2] - (now - resumed[1])>>

C5_PauseResumeKeepsTimeLeft == [][C5_Resume /\ C5_FirstTick]_vars

\* resumed after a pause that lasted a while (startTime has moved past the
\* session's start), with time elapsed since the resume
C5_Witness ==
    /\ resumed # << >>
    /\ state.isRunning
    /\ state.timeLeft = resumed[2]
    /\ resumed[2] < state.roundTime
    /\ state.startTime > state.sessionStartTime
    /\ now > resumed[1]

\* C6 (as claimed): the soon cue is played exactly once per Work phase, never
\* twice, never zero times in a phase that ran to completion, and never by a
\* tick whose recomputed timeLeft is above SOON_TIME.
C6_SoonExactlyOncePerPhase ==
    /\ soonCount <= 1
    /\ (state.phase = IDLE /\ lastOp = "tick" /\ played = <<"finish">>) => soonCount = 1
    /\ (lastOp = "tick" /\ played = <<"soon">>) => computed[1] <= SOON_TIME

\* C7: start() at time n while phase = Idle gives Work, running,
\* timeLeft = roundTime, startTime = sessionStartTime = n, the soon latch
\* clear, one live tick loop and one notification, whatever timeLeft the Idle
\* state carried.
C7_Step ==
    (state.phase = IDLE /\ StartCalled) =>
        /\ state'.phase = WORK
        /\ state'.isRunning
        /\ state'.roundTime = state.roundTime
        /\ state'.timeLeft = state.roundTime
        /\ state'.startTime = now
        /\ state'.sessionStartTime = now
        /\ ~state'.soonSoundPlayed
        /\ intervalId' # Null
        /\ intervals' = {intervalId'}
        /\ notifyCalls' = 1
        /\ delivered' = [i \in 1..Cardinality(subscribers) |-> state']

C7_StartFromIdle == [][C7_Step]_vars

C7_Witness ==
    /\ lastOp = "start"
    /\ fresh = <<now>>
    /\ state.phase = WORK
    /\ state.timeLeft = state.roundTime
    /\ delivered = <<state>>

\* C8: start() while running changes no field, keeps the tick-loop handle as
\* it is and notifies nobody; pause() while not running likewise.
C8_Step ==
    /\ (state.isRunning /\ lastOp' = "start") => (UNCHANGED engine /\ Silent')
    /\ (~state.isRunning /\ lastOp' = "pause") => (UNCHANGED engine /\ Silent')

C8_RedundantCallsAreNoOps == [][C8_Step]_vars

\* start() has just been called on a running timer
C8_Witness ==
    /\ lastOp = "start"
    /\ state.isRunning
    /\ notifyCalls = 0
    /\ intervals = {intervalId}

\* C9: a toggle() less than DEBOUNCE_MS after the previous toggle that took
\* effect changes no field, leaves the tick loop alone and notifies nobody;
\* any other toggle() takes effect: it pauses a running timer (as pause()
\* does) and starts a stopped one (as start() does).
C9_Step ==
    lastOp' = "toggle" =>
        IF toggledAt # Null /\ now - toggledAt < DEBOUNCE_MS
        THEN UNCHANGED engine /\ Silent'
        ELSE /\ state'.isRunning = ~state.isRunning
             /\ notifyCalls' = 1
             /\ IF state.isRunning
                THEN /\ intervalId' = Null /\ intervals' = {}
                     /\ state' = [state EXCEPT !.isRunning = FALSE]
                ELSE /\ intervalId' # Null /\ intervals' = {intervalId'}
                     /\ state'.phase = WORK
                     /\ state'.timeLeft =
                            (IF state.phase = IDLE THEN state.roundTime ELSE state.timeLeft)

C9_ToggleDebounced == [][C9_Step]_vars

\* a second toggle() within the debounce window of one that took effect
C9_Witness ==
    /\ lastOp = "toggle"
    /\ Silent
    /\ toggledAt # Null
    /\ now > toggledAt
    /\ now - toggledAt < DEBOUNCE_MS

\* C10: the timeLeft adjustCurrentTime(delta) stores is
\* clamp(old timeLeft + delta, 0, roundTime), so it lies in [0, roundTime].
C10_Step ==
    lastOp' = "adjustCurrentTime" =>
        /\ state'.timeLeft = Clamp(state.timeLeft + lastArg', 0, state.roundTime)
        /\ 0 <= state'.timeLeft
        /\ state'.timeLeft <= state'.roundTime

C10_AdjustClamps == [][C10_Step]_vars

\* a negative adjustment of a running timer that ended at the floor
C10_Witness ==
    /\ lastOp = "adjustCurrentTime"
    /\ lastArg < 0
    /\ state.timeLeft = 0
    /\ state.isRunning
    /\ state.startTime = now - state.roundTime

\* C11: from any reachable state (Idle, running, paused, destroyed) reset()
\* leaves exactly createInitialState(roundTime), roundTime kept, with no
\* interval handle and no interval registered; and a reset() of the state it
\* left yields the same state, again with the tick loop stopped.
C11_Step ==
    lastOp' = "reset" =>
        /\ state' = createInitialState(state.roundTime)
        /\ state' = [phase |-> IDLE, isRunning |-> FALSE, timeLeft |-> state.roundTime,
                     startTime |-> Null, sessionStartTime |-> Null,
                     soonSoundPlayed |-> FALSE, roundTime |-> state.roundTime]
        /\ intervalId' = Null
        /\ intervals' = {}
        /\ reset(World').state = state'
        /\ reset(World').intervalId = Null
        /\ reset(World').intervals = {}

C11_ResetIdempotent == [][C11_Step]_vars

\* a reset() of a running session: the second call made, after a start
C11_Witness ==
    /\ lastOp = "reset"
    /\ calls = 2
    /\ lastId # 0
    /\ state = createInitialState(state.roundTime)
    /\ intervals = {}

\* C12: right after a start() that acted (from Idle or a resume), after an
\* adjustCurrentTime() of a running timer and after every tick that leaves
\* the timer running, timeLeft = roundTime - (now - startTime), now being the
\* time that operation read; the value a tick computes is
\* roundTime - (now - startTime) of the state it found, whatever ticks came
\* before.
C12_Step ==
    /\ (/\ \/ StartCalled /\ ~state.isRunning
           \/ lastOp' = "adjustCurrentTime"
           \/ lastOp' = "tick"
        /\ state'.isRunning)
          => state'.timeLeft = state'.roundTime - (now - state'.startTime)
    /\ (lastOp' = "tick" /\ computed' # << >>)
          => computed' = <<state.roundTime - (now - state.startTime)>>

C12_DriftCorrected == [][C12_Step]_vars

\* a tick that found the timer running with time elapsed since the start
C12_Witness ==
    /\ lastOp = "tick"
    /\ state.isRunning
    /\ now > state.startTime
    /\ computed = <<state.timeLeft>>
    /\ state.timeLeft = state.roundTime - (now - state.startTime)

\* the clock distances at which the tick after a settings change is compared
TickDelays == {0, FineStep, CoarseStep}

\* C13 (as claimed): updateSettings({roundTime}) on a running Work session
\* does not alter the remaining time: the timeLeft the next tick computes
\* d ms after the call is the timeLeft a tick at that instant would have
\* computed had updateSettings not been called.
C13_Step ==
    (lastOp' = "updateSettings" /\ state.phase = WORK /\ state.isRunning) =>
        \A d \in TickDelays :
            tick(World', now + d).computed = tick(World, now + d).computed

C13_SettingsKeepRemaining == [][C13_Step]_vars

\* C14: updateSettings({roundTime: r}) stores roundTime = max(r, 30000) (the
\* old roundTime if r is left out) and makes one notification; in Idle it
\* also sets timeLeft to the new roundTime; in Work, running or paused, every
\* other field keeps its value; the tick loop is neither started nor stopped.
C14_Step ==
    lastOp' = "updateSettings" =>
        LET r == IF lastArg' = Null THEN state.roundTime ELSE Max(lastArg', MIN_ROUND_TIME)
        IN  /\ state'.roundTime = r
            /\ notifyCalls' = 1
            /\ delivered' = [i \in 1..Cardinality(subscribers) |-> state']
            /\ played' = << >>
            /\ state' = IF state.phase = IDLE
                        THEN [state EXCEPT !.roundTime = r, !.timeLeft = r]
                        ELSE [state EXCEPT !.roundTime = r]
            /\ UNCHANGED <<intervalId, intervals, lastId, subscribers,
                           lastActionTime, lastNotifyTime>>

C14_UpdateSettingsFrame == [][C14_Step]_vars

\* a longer round set on a running session with a subscriber listening
C14_Witness ==
    /\ lastOp = "updateSettings"
    /\ lastArg = 40000
    /\ state.phase = WORK
    /\ state.isRunning
    /\ state.roundTime = 40000
    /\ state.timeLeft = 30000
    /\ intervals = {intervalId}
    /\ delivered = <<state>>

\* tick() finds the timer stopped, or without a start time, or without a handle
TickGuarded == ~state.isRunning \/ state.startTime = Null \/ intervalId = Null

\* C15: a tick callback that runs when the interval has been cleared (after
\* pause(), reset() or destroy()) finds isRunning = false, startTime = null or
\* no handle; and a tick that finds any of these changes no field, plays no
\* cue, computes nothing and notifies nobody.
C15_Step ==
    /\ lastOp' = "staleTick" => TickGuarded
    /\ (lastOp' \in {"tick", "staleTick"} /\ TickGuarded) =>
          /\ UNCHANGED engine
          /\ UNCHANGED audioInit
          /\ Silent'
          /\ computed' = << >>

C15_StaleTickIsNoOp == [][C15_Step]_vars

\* a stale callback on a paused session, later than the pause: had it acted,
\* it would have stored a smaller timeLeft
C15_Witness ==
    /\ lastOp = "staleTick"
    /\ state.phase = WORK
    /\ ~state.isRunning
    /\ state.startTime # Null
    /\ state.roundTime - (now - state.startTime) < state.timeLeft
    /\ Silent

\* C16 (as claimed): a tick that does not end the phase passes a snapshot to
\* subscribers only if at least THROTTLE_MS have passed since a subscriber
\* last received one, from whatever operation (start, pause, reset,
\* adjustCurrentTime, updateSettings or an earlier tick), or if none has.
C16_Step ==
    (lastOp' = "tick" /\ state'.isRunning /\ delivered' # << >>) =>
        sinceDelivery >= THROTTLE_MS

C16_TickNotificationsThrottled == [][C16_Step]_vars

\* C17: a tick that computes timeLeft <= 0 plays the finish cue and nothing
\* else, leaves createInitialState(roundTime) with the tick loop stopped, and
\* makes one notifySubscribers() call, which hands each subscriber the Idle
\* snapshot; no snapshot of that tick has phase = Work, and the throttle's
\* lastNotifyTime is not touched.
C17_Step ==
    (lastOp' = "tick" /\ computed' # << >> /\ computed'[1] <= 0) =>
        /\ state.phase = WORK
        /\ played' = <<"finish">>
        /\ state' = createInitialState(state.roundTime)
        /\ intervalId' = Null
        /\ intervals' = {}
        /\ notifyCalls' = 1
        /\ delivered' = [i \in 1..Cardinality(subscribers) |-> state']
        /\ \A i \in 1..Len(delivered') :
              /\ delivered'[i].phase = IDLE
              /\ delivered'[i].timeLeft = state.roundTime
              /\ ~delivered'[i].isRunning
        /\ UNCHANGED lastNotifyTime

C17_TransitionPathOnly == [][C17_Step]_vars

\* a tick past the end of the round, with a subscriber listening
C17_Witness ==
    /\ lastOp = "tick"
    /\ computed # << >>
    /\ computed[1] < 0
    /\ played = <<"finish">>
    /\ subscribers # {}
    /\ delivered = <<state>>
    /\ state.phase = IDLE

\* C18: between operations the engine holds an interval handle exactly when
\* isRunning, the host has that handle's callback registered and no other,
\* and when the timer is stopped (after pause(), reset(), destroy() or the
\* round-ending tick) no callback is registered at all.
C18_HandleLiveIffRunning ==
    /\ (intervalId # Null) <=> state.isRunning
    /\ Cardinality(intervals) <= 1
    /\ intervals = (IF state.isRunning THEN {intervalId} ELSE {})

\* a resumed timer: the second handle is the only one registered
C18_Witness ==
    /\ state.isRunning
    /\ lastId = 2
    /\ intervalId = 2
    /\ intervals = {2}

\* C19: the timeLeft of the state every operation (a tick included) leaves
\* behind, which is what getState() returns, is >= 0, and so is the timeLeft
\* of every snapshot passed to a subscriber: a negative value computed by a
\* tick is replaced within that tick, before its notification.
C19_TimeLeftNeverNegative ==
    /\ state.timeLeft >= 0
    /\ getState(World).timeLeft >= 0
    /\ \A i \in 1..Len(delivered) : delivered[i].timeLeft >= 0

\* a tick that computed a negative timeLeft and notified a subscriber
C19_Witness ==
    /\ lastOp = "tick"
    /\ computed # << >>
    /\ computed[1] < 0
    /\ Len(delivered) = 1
    /\ delivered[1].timeLeft = state.roundTime
    /\ state.timeLeft = state.roundTime

\* a pause() that found the timer running, called directly or by toggle()
PauseCalled ==
    /\ state.isRunning
    /\ \/ lastOp' = "pause"
       \/ lastOp' = "toggle" /\ ~state'.isRunning

\* C20: pause() on a running timer sets isRunning to false and releases the
\* interval handle; timeLeft, startTime, sessionStartTime, phase, roundTime
\* and soonSoundPlayed keep their values, so timeLeft stays what the last
\* tick, start() or adjustCurrentTime() stored, whatever the clock says now.
C20_Step ==
    PauseCalled =>
        /\ state' = [state EXCEPT !.isRunning = FALSE]
        /\ state'.timeLeft = state.timeLeft
        /\ intervalId' = Null
        /\ intervals' = {}
        /\ computed' = << >>
        /\ played' = << >>
        /\ notifyCalls' = 1
        /\ UNCHANGED <<subscribers, lastNotifyTime, lastId>>

C20_PauseFrame == [][C20_Step]_vars

\* a pause() later than the last tick: the time since then is not deducted
C20_Witness ==
    /\ lastOp = "pause"
    /\ state.phase = WORK
    /\ ~state.isRunning
    /\ intervals = {}
    /\ pausedLeft = <<state.timeLeft>>
    /\ state.timeLeft > state.roundTime - (now - state.startTime)

=============================================================================
